---- MODULE Spec2Model ----
(* Relational-operator opcode module of the event table                      *)
(* (src/circuits/config_builder/op_rel.rs): its gates, its memory-table      *)
(* lookups, its opcode()/sp_diff() expressions and its assign routine,       *)
(* evaluated on one row of advice cells.                                     *)
EXTENDS Integers, FiniteSets, Sequences, TLC

(* ------------------------------------------------------------------------ *)
(* The field.  F: FieldExt is a prime field; the model keeps it prime and    *)
(* scales the modulus and the opcode shifts down together, so that, as in    *)
(* the source, every packed opcode is smaller than the modulus.              *)
(* ------------------------------------------------------------------------ *)
P == 37

Field == 0 .. (P - 1)

Fadd(a, b) == (a + b) % P

Fsub(a, b) == ((a - b) + P) % P

Fmul(a, b) == (a * b) % P

bn_to_field(n) == n % P

Pow2(n) == IF n = 0 THEN 1 ELSE IF n = 1 THEN 2 ELSE IF n = 2 THEN 4 ELSE IF n = 3 THEN 8 ELSE 16

Shl(x, n) == x * Pow2(n)

(* ------------------------------------------------------------------------ *)
(* Constants of the specs crate (itable / mtable).                           *)
(* ------------------------------------------------------------------------ *)
OPCODE_CLASS_SHIFT == 3

OPCODE_ARG0_SHIFT == 2

OPCODE_ARG1_SHIFT == 0

OpcodeClass_Rel == 2

OpcodeClasses == 1 .. 3

RelOp_Eq == 0

RelOp_Ne == 1

VarType_I32 == 1

VarType_I64 == 2

VarType_Bool == 3

VarTypes == {VarType_I32, VarType_I64, VarType_Bool}

(* class << CLASS_SHIFT | arg0 << ARG0_SHIFT | arg1 << ARG1_SHIFT, for       *)
(* constituents that fit their slots                                         *)
Encode(class, arg0, arg1) ==
    Shl(class, OPCODE_CLASS_SHIFT) + Shl(arg0, OPCODE_ARG0_SHIFT) + Shl(arg1, OPCODE_ARG1_SHIFT)

Arg0s == 0 .. (Pow2(OPCODE_CLASS_SHIFT - OPCODE_ARG0_SHIFT) - 1)

Arg1s == 0 .. (Pow2(OPCODE_ARG0_SHIFT - OPCODE_ARG1_SHIFT) - 1)

(* ------------------------------------------------------------------------ *)
(* Bounds of the model                                                       *)
(* ------------------------------------------------------------------------ *)
MaxSp == 3

MaxEid == 2

Vals == {1, 2, 5, 6}

SmallVals == {0, 1, 2}

Bits == {0, 1}

VARIABLES
    pc,             \* "setup" | "configured" | "assigned" | "aborted" | "verified"
    gates,          \* names of the gates registered by configure
    lookups,        \* memory-table lookups registered by configure
    is_eq, is_ne, res,      \* advice cells of the row
    left, right,            \* typed-value slots: [vtype, value]
    opcode_bit,             \* the module's opcode selector cell (RelOpConfig.enable)
    enable,                 \* value of the row-enable predicate enable(meta)
    eid, sp,                \* common columns
    entry,                  \* trace entry handed to assign
    assign_result,          \* "none" | "Ok" | "panic_todo" | "panic_unreachable"
    written,                \* cells written by assign
    gate_ok,                \* gate name -> satisfied on the row
    mtable_rows,            \* rows this module contributes to the memory relation
    opcode_out,             \* value of opcode() on the row
    sp_diff_out             \* value of sp_diff() on the row

cells == <<is_eq, is_ne, res, left, right, opcode_bit, enable, eid, sp>>

outs == <<gate_ok, mtable_rows, opcode_out, sp_diff_out>>

vars == <<pc, gates, lookups, cells, entry, assign_result, written, outs>>

GateNames == {"is eq or ne", "res is bool", "op bin vtype constrains"}

NoEntry == [eid |-> 0, kind |-> "none", left |-> 0, right |-> 0, value |-> FALSE]

Init ==
    /\ pc = "setup"
    /\ gates = {}
    /\ lookups = {}
    /\ is_eq = 0 /\ is_ne = 0 /\ res = 0
    /\ left = [vtype |-> 0, value |-> 0]
    /\ right = [vtype |-> 0, value |-> 0]
    /\ opcode_bit = 0 /\ enable = 0
    /\ eid = 0 /\ sp = 0
    /\ entry = NoEntry
    /\ assign_result = "none"
    /\ written = {}
    /\ gate_ok = [g \in GateNames |-> TRUE]
    /\ mtable_rows = {}
    /\ opcode_out = 0
    /\ sp_diff_out = 0

(* ------------------------------------------------------------------------ *)
(* configure: the gates and the three memory-table lookups                   *)
(* ------------------------------------------------------------------------ *)
activation == Fmul(opcode_bit, enable)

gate_is_eq_or_ne_no_sum ==
    << Fmul(Fmul(is_eq, Fsub(is_eq, 1)), enable),
       Fmul(Fmul(is_ne, Fsub(is_ne, 1)), enable) >>

gate_is_eq_or_ne ==
    << Fmul(Fmul(is_eq, Fsub(is_eq, 1)), enable),
       Fmul(Fmul(is_ne, Fsub(is_ne, 1)), enable),
       Fmul(Fsub(Fadd(is_eq, is_ne), 1), enable) >>

gate_res_is_bool ==
    << Fmul(Fmul(res, Fsub(res, 1)), enable) >>

gate_op_bin_vtype_same_slot ==
    << Fmul(Fsub(left.vtype, left.vtype), enable) >>

gate_op_bin_vtype ==
    << Fmul(Fsub(left.vtype, right.vtype), enable) >>

GatePolys(g) ==
    IF g = "is eq or ne" THEN gate_is_eq_or_ne
    ELSE IF g = "res is bool" THEN gate_res_is_bool
    ELSE gate_op_bin_vtype

MemoryLookups_write_at_top ==
    { [atype |-> "read",  emid |-> 1, slot |-> "right", offset |-> 1],
      [atype |-> "read",  emid |-> 2, slot |-> "left",  offset |-> 2],
      [atype |-> "write", emid |-> 3, slot |-> "res",   offset |-> 1] }

MemoryLookups ==
    { [atype |-> "read",  emid |-> 1, slot |-> "right", offset |-> 1],
      [atype |-> "read",  emid |-> 2, slot |-> "left",  offset |-> 2],
      [atype |-> "write", emid |-> 3, slot |-> "res",   offset |-> 2] }

configure ==
    /\ pc = "setup"
    /\ gates' = GateNames
    /\ lookups' = MemoryLookups
    /\ pc' = "configured"
    /\ UNCHANGED <<cells, entry, assign_result, written, outs>>

(* the tuple one registered lookup asks the memory table for on this row *)
LookupRow(l) ==
    [ atype |-> l.atype,
      eid |-> eid,
      emid |-> l.emid,
      address |-> Fsub(sp, l.offset),
      vtype |-> IF l.slot = "right" THEN right.vtype
                ELSE IF l.slot = "left" THEN left.vtype
                ELSE VarType_Bool,
      value |-> IF l.slot = "right" THEN right.value
                ELSE IF l.slot = "left" THEN left.value
                ELSE res ]

(* ------------------------------------------------------------------------ *)
(* The runtime interface of RelOpConfig                                      *)
(* ------------------------------------------------------------------------ *)
opcode_ne_as_eq(iseq, isne, lvtype, en) ==
    Fmul(
      Fadd(Fadd(Fadd(bn_to_field(Shl(OpcodeClass_Rel, OPCODE_CLASS_SHIFT)),
                     Fmul(iseq, bn_to_field(Shl(RelOp_Eq, OPCODE_ARG0_SHIFT)))),
                Fmul(isne, bn_to_field(Shl(RelOp_Eq, OPCODE_ARG0_SHIFT)))),
           Fmul(lvtype, bn_to_field(Shl(1, OPCODE_ARG1_SHIFT)))),
      en)

opcode(iseq, isne, lvtype, en) ==
    Fmul(
      Fadd(Fadd(Fadd(bn_to_field(Shl(OpcodeClass_Rel, OPCODE_CLASS_SHIFT)),
                     Fmul(iseq, bn_to_field(Shl(RelOp_Eq, OPCODE_ARG0_SHIFT)))),
                Fmul(isne, bn_to_field(Shl(RelOp_Ne, OPCODE_ARG0_SHIFT)))),
           Fmul(lvtype, bn_to_field(Shl(1, OPCODE_ARG1_SHIFT)))),
      en)

sp_diff(en) == Fmul(1, en)

opcode_class == OpcodeClass_Rel

assign_outcome_other_ok(e) ==
    IF e.kind = "I32Comp" THEN "panic_todo" ELSE "Ok"

(* match entry.step_info { I32Comp {..} => todo!(), _ => unreachable!() } *)
assign_outcome(e) ==
    IF e.kind = "I32Comp" THEN "panic_todo" ELSE "panic_unreachable"

assign_writes(e) == {}

Entries ==
    { [eid |-> i, kind |-> "I32Comp", left |-> l, right |-> r, value |-> v] :
        i \in 1 .. MaxEid, l \in Vals, r \in Vals, v \in BOOLEAN }
    \cup
    { [eid |-> i, kind |-> k, left |-> 0, right |-> 0, value |-> FALSE] :
        i \in 1 .. MaxEid, k \in {"Drop", "I32Const"} }

assign ==
    /\ pc = "configured"
    /\ \E e \in Entries :
        /\ entry' = e
        /\ assign_result' = assign_outcome(e)
        /\ written' = assign_writes(e)
        /\ pc' = IF assign_outcome(e) = "Ok" THEN "assigned" ELSE "aborted"
    /\ UNCHANGED <<gates, lookups, cells, outs>>

(* ------------------------------------------------------------------------ *)
(* A witness for the row written directly into the advice cells              *)
(* ------------------------------------------------------------------------ *)
SetCells(e, n, r, lv, lx, rv, rx, b, en, i, s) ==
    /\ is_eq' = e /\ is_ne' = n /\ res' = r
    /\ left' = [vtype |-> lv, value |-> lx]
    /\ right' = [vtype |-> rv, value |-> rx]
    /\ opcode_bit' = b /\ enable' = en
    /\ eid' = i /\ sp' = s

AssignWitness ==
    /\ pc = "configured"
    /\ pc' = "assigned"
    /\ \/ \E e \in SmallVals, n \in SmallVals, r \in SmallVals,
             lv \in VarTypes, rv \in VarTypes, lx \in Vals, rx \in Vals,
             b \in Bits, en \in Bits, i \in 1 .. MaxEid, s \in 2 .. MaxSp :
             SetCells(e, n, r, lv, lx, rv, rx, b, en, i, s)
       \/ \E e \in Field, n \in Field, r \in SmallVals, b \in Bits, en \in Bits :
             SetCells(e, n, r, VarType_I32, 5, VarType_I32, 5, b, en, 1, 2)
       \/ \E r \in Field, b \in Bits, en \in Bits :
             SetCells(1, 0, r, VarType_I32, 5, VarType_I32, 5, b, en, 1, 2)
       \/ \E lv \in Field, rv \in Field, b \in Bits, en \in Bits :
             SetCells(1, 0, 1, lv, 5, rv, 5, b, en, 1, 2)
    /\ UNCHANGED <<gates, lookups, entry, assign_result, written, outs>>

(* ------------------------------------------------------------------------ *)
(* Evaluation of the registered gates, lookups and interface expressions     *)
(* ------------------------------------------------------------------------ *)
AllZero(polys) == \A k \in 1 .. Len(polys) : polys[k] = 0

verify ==
    /\ pc = "assigned"
    /\ gate_ok' = [g \in GateNames |-> (g \in gates) => AllZero(GatePolys(g))]
    /\ mtable_rows' = IF activation = 0 THEN {}
                      ELSE { LookupRow(l) : l \in lookups }
    /\ opcode_out' = opcode(is_eq, is_ne, left.vtype, opcode_bit)
    /\ sp_diff_out' = sp_diff(opcode_bit)
    /\ pc' = "verified"
    /\ UNCHANGED <<gates, lookups, cells, entry, assign_result, written>>

Next == configure \/ assign \/ AssignWitness \/ verify

Spec == Init /\ [][Next]_vars

(* ------------------------------------------------------------------------ *)
(* Properties                                                                *)
(* ------------------------------------------------------------------------ *)
Active == opcode_bit = 1 /\ enable = 1

AllGatesOk == \A g \in GateNames : gate_ok[g]

Intended ==
    IF \/ (is_eq = 1 /\ left.value = right.value)
       \/ (is_ne = 1 /\ left.value # right.value)
    THEN 1 ELSE 0

(* C1: on every active row that satisfies all the module's gates, res is the *)
(* result of the comparison: 1 exactly when (is_eq and left = right) or      *)
(* (is_ne and left # right), 0 otherwise.                                    *)
C1_ResIsComparison ==
    (pc = "verified" /\ Active /\ AllGatesOk) => res = Intended

(* C2: sp_diff() is -1 on a row where the module's selector is 1 and 0 on a  *)
(* row where it is 0.                                                        *)
C2_SpDiffMinusOne ==
    pc = "verified" =>
        /\ (opcode_bit = 1 => sp_diff_out = Fsub(0, 1))
        /\ (opcode_bit = 0 => sp_diff_out = 0)

(* C3: for an integer-comparison entry assign returns Ok after writing left, *)
(* right and res.                                                            *)
C3_AssignCompletes ==
    (assign_result # "none" /\ entry.kind = "I32Comp") =>
        /\ assign_result = "Ok"
        /\ written = {"left", "right", "res"}

(* C4: when the lookup activation is 1 the module contributes exactly three  *)
(* memory rows with the row's eid: read #1 at sp - 1 of right, read #2 at    *)
(* sp - 2 of left, write #3 at sp - 2 of (Bool, res); when it is 0, none.    *)
C4_MemoryLookups ==
    pc = "verified" =>
        /\ (opcode_bit * enable = 1 =>
              mtable_rows =
                { [atype |-> "read", eid |-> eid, emid |-> 1, address |-> sp - 1,
                   vtype |-> right.vtype, value |-> right.value],
                  [atype |-> "read", eid |-> eid, emid |-> 2, address |-> sp - 2,
                   vtype |-> left.vtype, value |-> left.value],
                  [atype |-> "write", eid |-> eid, emid |-> 3, address |-> sp - 2,
                   vtype |-> VarType_Bool, value |-> res] })
        /\ (opcode_bit * enable = 0 => mtable_rows = {})

C4_Witness ==
    /\ pc = "verified" /\ opcode_bit * enable = 1
    /\ Cardinality(mtable_rows) = 3
    /\ left.value = 1 /\ right.value = 2 /\ res = 1

(* C5: on an active row the gates "is eq or ne" and "res is bool" hold iff   *)
(* is_eq, is_ne and res are each 0 or 1 and is_eq + is_ne = 1.               *)
C5_BooleanGates ==
    (pc = "verified" /\ Active) =>
        ( (gate_ok["is eq or ne"] /\ gate_ok["res is bool"])
          <=> ( /\ is_eq \in {0, 1} /\ is_ne \in {0, 1} /\ res \in {0, 1}
                /\ is_eq + is_ne = 1 ) )

C5_Witness ==
    /\ pc = "verified" /\ Active
    /\ is_eq = 1 /\ is_ne = 1 /\ res = 1
    /\ ~ gate_ok["is eq or ne"]

(* C6: on an active row the gate "op bin vtype constrains" holds iff         *)
(* left.vtype = right.vtype.                                                 *)
C6_TypeAgreement ==
    (pc = "verified" /\ Active) =>
        (gate_ok["op bin vtype constrains"] <=> left.vtype = right.vtype)

C6_Witness ==
    /\ pc = "verified" /\ Active
    /\ left.vtype = VarType_I32 /\ right.vtype = VarType_I64
    /\ ~ gate_ok["op bin vtype constrains"]

(* C7: over active rows that satisfy the gates, with left.vtype a valid tag, *)
(* no other (sub-operation, operand type) pair has the same opcode() value,  *)
(* and no triple of another class is packed to it.                           *)
C7_EncodingInjective ==
    (pc = "verified" /\ Active /\ AllGatesOk /\ left.vtype \in VarTypes) =>
        /\ \A e2 \in Bits, n2 \in Bits, vt2 \in VarTypes :
              (e2 + n2 = 1 /\ opcode(e2, n2, vt2, 1) = opcode_out)
                  => (e2 = is_eq /\ n2 = is_ne /\ vt2 = left.vtype)
        /\ \A c \in OpcodeClasses \ {opcode_class}, a0 \in Arg0s, a1 \in Arg1s :
              bn_to_field(Encode(c, a0, a1)) # opcode_out

C7_Witness ==
    /\ pc = "verified" /\ Active /\ AllGatesOk
    /\ is_ne = 1 /\ left.vtype = VarType_I64
    /\ opcode_out # 0

(* C8: assign on an entry whose payload is not an integer comparison never   *)
(* returns Ok, writes no cell, and aborts witness generation.                *)
C8_MismatchAborts ==
    (assign_result # "none" /\ entry.kind # "I32Comp") =>
        /\ assign_result # "Ok"
        /\ written = {}
        /\ pc = "aborted"
        /\ is_eq = 0 /\ is_ne = 0 /\ res = 0
        /\ left.value = 0 /\ right.value = 0

C8_Witness ==
    /\ entry.kind = "Drop"
    /\ assign_result = "panic_unreachable"
    /\ pc = "aborted"

(* C9: on a row where the selector is 1 and the gates hold, opcode() is the  *)
(* packed encoding of (Rel, Eq if is_eq = 1 / Ne if is_ne = 1, left.vtype);  *)
(* on a row where the module is inactive opcode() is 0.                      *)
C9_OpcodeValue ==
    (pc = "verified" /\ left.vtype \in VarTypes) =>
        /\ (opcode_bit = 1 /\ AllGatesOk) =>
              /\ (is_eq = 1 \/ is_ne = 1)
              /\ (is_eq = 1 => opcode_out = Encode(OpcodeClass_Rel, RelOp_Eq, left.vtype))
              /\ (is_ne = 1 => opcode_out = Encode(OpcodeClass_Rel, RelOp_Ne, left.vtype))
        /\ (opcode_bit = 0 => opcode_out = 0)

(* C10: on a row where the opcode selector is 0 or the row-enable predicate  *)
(* is 0 every assignment satisfies the three gates, and the gates, the       *)
(* memory lookups and opcode()/sp_diff() are active on the same rows.        *)
C10_InactiveUnconstrained ==
    pc = "verified" =>
        /\ ((opcode_bit = 0 \/ enable = 0) => AllGatesOk)
        /\ ((sp_diff_out # 0) <=> (mtable_rows # {}))

====
